---- MODULE Spec2Model ----
(***************************************************************************)
(* Patchwork Gaussian process (albatross, models/patchwork_gp.hpp).        *)
(*                                                                         *)
(* The module models the group/boundary feature wrappers, the covariance   *)
(* dispatch of PatchworkCaller, build_boundary_features and the fit and    *)
(* predict entry points of PatchworkGaussianProcess.                       *)
(*                                                                         *)
(* The specifications share the variables:                                 *)
(*   SpecCaller    features are constructed and PatchworkCaller::call is   *)
(*                 applied to them;                                        *)
(*   SpecBoundary  as_boundary_features / build_boundary_features are      *)
(*                 applied to key lists and a boundary function;           *)
(*   Spec          a model instance is constructed, fitted and asked to    *)
(*                 predict; the block operations are applied;              *)
(*   SpecSolver    the generalized solver of predict runs on a fitted      *)
(*                 model;                                                  *)
(*   SpecConfig    a model type is instantiated with a bundle type;        *)
(*   SpecDistribution  distributions are constructed and subset;           *)
(*   SpecFolds     cross validation folds are built.                       *)
(***************************************************************************)
EXTENDS Integers, Sequences, FiniteSets, TLC

VARIABLES
    pc,                  \* position of the driving program
    cov,                 \* covariance_function_ : raw x raw -> double
    patchwork_functions, \* patchwork_functions_ : grouper, boundary, nearest_group
    fit_models,          \* Fit<PatchworkGPFit>::fit_models : Grouped<GroupKey, FitModel>
    x,                   \* first argument of the covariance call
    y,                   \* second argument of the covariance call
    value,               \* double returned by PatchworkCaller::call
    groups,              \* key list / key pair handed to the boundary builders
    features,            \* feature vector handed to the last operation
    block_lhs,           \* first Grouped operand of the block operation
    block_rhs,           \* second Grouped operand of the block operation
    ret,                 \* outcome of the last operation
    calls                \* collaborator invocations made by the last operation

vars == <<pc, cov, patchwork_functions, fit_models, x, y, value, groups,
          features, block_lhs, block_rhs, ret, calls>>

----------------------------------------------------------------------------
(* Bounds *)

MaxKey == 4
MaxFeature == 3
MaxCov == 2
MaxGroups == 3
MaxBoundary == 2
MaxData == 2
MaxQuery == 2
MaxMean == 2
MaxIndex == 3
MaxTrain == 3

Keys == 1..MaxKey
Raw == 1..MaxFeature

----------------------------------------------------------------------------
(* Feature wrappers *)

\* A raw (untagged) feature as an argument of the covariance call.
RawFeature(feature_) == [kind |-> "raw", feature |-> feature_]

GroupFeature(key_, feature_) ==
    [kind |-> "group", key |-> key_, feature |-> feature_]

BoundaryFeature(lhs_, rhs_, feature_) ==
    [kind |-> "boundary", lhs |-> lhs_, rhs |-> rhs_, feature |-> feature_]

NoFeature == [kind |-> "none"]

as_boundary_feature(lhs, rhs, feature) == BoundaryFeature(lhs, rhs, feature)

as_boundary_features_swapped(lhs, rhs, fs) ==
    [i \in 1..Len(fs) |-> as_boundary_feature(rhs, lhs, fs[i])]

as_boundary_features(lhs, rhs, fs) ==
    [i \in 1..Len(fs) |-> as_boundary_feature(lhs, rhs, fs[i])]

as_group_feature(key, feature) == GroupFeature(key, feature)

as_group_features(key, fs) ==
    [i \in 1..Len(fs) |-> as_group_feature(key, fs[i])]

----------------------------------------------------------------------------
(* Covariance dispatch *)

\* DefaultCaller::call : the covariance function's own evaluator on raw features.
DefaultCaller(k, a, b) == k[<<a, b>>]

\* has_valid_cov_caller<CovFunc, DefaultCaller, X, Y>: the base covariance is
\* defined over raw features only.
has_valid_cov_caller(a, b) == a.kind = "raw" /\ b.kind = "raw"

CallDefaultZero(k, a, b) == 0

\* PatchworkCallerBase::call, overload for types the SubCaller accepts.
CallDefault(k, a, b) == DefaultCaller(k, a.feature, b.feature)

\* PatchworkCallerBase::call(GroupFeature, GroupFeature)
CallGroupGroup(k, a, b) ==
    IF a.key = b.key
    THEN DefaultCaller(k, a.feature, b.feature)
    ELSE 0

CallGroupBoundaryNoSign(k, a, b) ==
    IF a.key = b.lhs
    THEN DefaultCaller(k, a.feature, b.feature)
    ELSE IF a.key = b.rhs
    THEN DefaultCaller(k, a.feature, b.feature)
    ELSE 0

\* PatchworkCallerBase::call(GroupFeature, BoundaryFeature)
CallGroupBoundary(k, a, b) ==
    IF a.key = b.lhs
    THEN DefaultCaller(k, a.feature, b.feature)
    ELSE IF a.key = b.rhs
    THEN -DefaultCaller(k, a.feature, b.feature)
    ELSE 0

CallBoundaryBoundaryNoLastCase(k, a, b) ==
    IF a.lhs = b.lhs /\ a.rhs = b.rhs
    THEN 2 * DefaultCaller(k, a.feature, b.feature)
    ELSE IF a.lhs = b.lhs /\ a.rhs # b.rhs
    THEN DefaultCaller(k, a.feature, b.feature)
    ELSE IF a.lhs # b.lhs /\ a.rhs = b.rhs
    THEN DefaultCaller(k, a.feature, b.feature)
    ELSE IF a.lhs = b.rhs /\ a.rhs # b.lhs
    THEN -DefaultCaller(k, a.feature, b.feature)
    ELSE 0

\* PatchworkCallerBase::call(BoundaryFeature, BoundaryFeature)
CallBoundaryBoundary(k, a, b) ==
    IF a.lhs = b.lhs /\ a.rhs = b.rhs
    THEN 2 * DefaultCaller(k, a.feature, b.feature)
    ELSE IF a.lhs = b.lhs /\ a.rhs # b.rhs
    THEN DefaultCaller(k, a.feature, b.feature)
    ELSE IF a.lhs # b.lhs /\ a.rhs = b.rhs
    THEN DefaultCaller(k, a.feature, b.feature)
    ELSE IF a.lhs = b.rhs /\ a.rhs # b.lhs
    THEN -DefaultCaller(k, a.feature, b.feature)
    ELSE IF a.lhs # b.rhs /\ a.rhs = b.lhs
    THEN -DefaultCaller(k, a.feature, b.feature)
    ELSE 0

\* Overload resolution of PatchworkCallerBase<DefaultCaller>::call: which
\* argument type pairs have a viable overload.
PatchworkCallerBaseValid(a, b) ==
    \/ has_valid_cov_caller(a, b)
    \/ a.kind = "group" /\ b.kind = "group"
    \/ a.kind = "group" /\ b.kind = "boundary"
    \/ a.kind = "boundary" /\ b.kind = "boundary"

PatchworkCallerBase(k, a, b) ==
    IF has_valid_cov_caller(a, b) THEN CallDefault(k, a, b)
    ELSE IF a.kind = "group" /\ b.kind = "group" THEN CallGroupGroup(k, a, b)
    ELSE IF a.kind = "group" /\ b.kind = "boundary" THEN CallGroupBoundary(k, a, b)
    ELSE CallBoundaryBoundary(k, a, b)

\* internal::SymmetricCaller<SubCaller>::call : the direct overload when it
\* exists, otherwise the overload for the swapped arguments.
SymmetricCallerValid(a, b) ==
    PatchworkCallerBaseValid(a, b) \/ PatchworkCallerBaseValid(b, a)

SymmetricCaller(k, a, b) ==
    IF PatchworkCallerBaseValid(a, b)
    THEN PatchworkCallerBase(k, a, b)
    ELSE PatchworkCallerBase(k, b, a)

\* using PatchworkCaller = internal::SymmetricCaller<PatchworkCallerBase<DefaultCaller>>
PatchworkCaller(k, a, b) == SymmetricCaller(k, a, b)

\* Symmetric covariance functions over the raw features: v on the diagonal,
\* w off it.
CovFuncs ==
    { [p \in Raw \X Raw |-> IF p[1] = p[2] THEN v ELSE w] :
        v \in 1..MaxCov, w \in 0..1 }

----------------------------------------------------------------------------
(* Values the unused variables hold *)

NoFunctions == [grouper |-> <<>>, boundary |-> <<>>, nearest_group |-> "none"]
NoFit == <<>>
NoRet == [status |-> "none"]

----------------------------------------------------------------------------
(* SpecCaller: construct two features, then evaluate the covariance *)

InitCaller ==
    /\ pc = "construct"
    /\ cov \in CovFuncs
    /\ patchwork_functions = NoFunctions
    /\ fit_models = NoFit
    /\ x = NoFeature
    /\ y = NoFeature
    /\ value = 0
    /\ groups = <<>>
    /\ features = <<>>
    /\ block_lhs = <<>>
    /\ block_rhs = <<>>
    /\ ret = NoRet
    /\ calls = <<>>

\* Places a constructed feature in the first free argument slot.
Place(f) ==
    /\ y.kind = "none"
    /\ IF x.kind = "none"
       THEN x' = f /\ y' = y
       ELSE x' = x /\ y' = f
    /\ UNCHANGED <<pc, cov, patchwork_functions, fit_models, value, groups,
                   features, block_lhs, block_rhs, ret, calls>>

TakeRawFeature ==
    \E f \in Raw :
        /\ pc = "construct"
        /\ Place(RawFeature(f))

MakeGroupFeature ==
    \E key \in Keys, f \in Raw :
        /\ pc = "construct"
        /\ Place(as_group_feature(key, f))

MakeBoundaryFeature ==
    \E lhs \in Keys, rhs \in Keys, f \in Raw :
        /\ pc = "construct"
        /\ Place(as_boundary_feature(lhs, rhs, f))

\* PatchworkCaller::call(cov_func, x, y); only well-formed calls compile.
Call ==
    /\ pc = "construct"
    /\ x.kind # "none"
    /\ y.kind # "none"
    /\ SymmetricCallerValid(x, y)
    /\ value' = PatchworkCaller(cov, x, y)
    /\ pc' = "called"
    /\ UNCHANGED <<cov, patchwork_functions, fit_models, x, y, groups,
                   features, block_lhs, block_rhs, ret, calls>>

NextCaller == TakeRawFeature \/ MakeGroupFeature \/ MakeBoundaryFeature \/ Call

SpecCaller == InitCaller /\ [][NextCaller]_vars

----------------------------------------------------------------------------
(* Boundary feature construction *)

\* Keys that group lists are drawn from.
GroupKeys == 1..MaxGroups

\* The nested loops of build_boundary_features from position (i, j) on; acc
\* carries the boundary_function invocations made and the features collected.
RECURSIVE BuildLoop(_, _, _, _, _)
BuildLoop(boundary_function, gs, i, j, acc) ==
    IF i > Len(gs) THEN acc
    ELSE IF j > Len(gs)
    THEN BuildLoop(boundary_function, gs, i + 1, i + 2, acc)
    ELSE LET next_boundary_features ==
                 as_boundary_features(gs[i], gs[j],
                                      boundary_function[<<gs[i], gs[j]>>])
         IN  BuildLoop(boundary_function, gs, i, j + 1,
                 [calls |-> Append(acc.calls, <<gs[i], gs[j]>>),
                  boundary_features |->
                      IF Len(next_boundary_features) > 0
                      THEN acc.boundary_features \o next_boundary_features
                      ELSE acc.boundary_features])

BuildNoSizeAssert(boundary_function, gs) ==
    LET out == BuildLoop(boundary_function, gs, 1, 2,
                         [calls |-> <<>>, boundary_features |-> <<>>])
    IN  [status |-> "ok",
         calls |-> out.calls,
         boundary_features |-> out.boundary_features]

RECURSIVE BuildLoopBothOrders(_, _, _, _, _)
BuildLoopBothOrders(boundary_function, gs, i, j, acc) ==
    IF i > Len(gs) THEN acc
    ELSE IF j > Len(gs)
    THEN BuildLoopBothOrders(boundary_function, gs, i + 1, 1, acc)
    ELSE IF j = i
    THEN BuildLoopBothOrders(boundary_function, gs, i, j + 1, acc)
    ELSE LET next_boundary_features ==
                 as_boundary_features(gs[i], gs[j],
                                      boundary_function[<<gs[i], gs[j]>>])
         IN  BuildLoopBothOrders(boundary_function, gs, i, j + 1,
                 [calls |-> Append(acc.calls, <<gs[i], gs[j]>>),
                  boundary_features |->
                      IF Len(next_boundary_features) > 0
                      THEN acc.boundary_features \o next_boundary_features
                      ELSE acc.boundary_features])

BuildBothOrders(boundary_function, gs) ==
    LET out == BuildLoopBothOrders(boundary_function, gs, 1, 1,
                   [calls |-> <<>>, boundary_features |-> <<>>])
    IN  [status |-> IF Len(out.boundary_features) > 0
                    THEN "ok" ELSE "assert_failed",
         calls |-> out.calls,
         boundary_features |-> out.boundary_features]

\* build_boundary_features: the loops, then assert(boundary_features.size() > 0).
build_boundary_features(boundary_function, gs) ==
    LET out == BuildLoop(boundary_function, gs, 1, 2,
                         [calls |-> <<>>, boundary_features |-> <<>>])
    IN  [status |-> IF Len(out.boundary_features) > 0
                    THEN "ok" ELSE "assert_failed",
         calls |-> out.calls,
         boundary_features |-> out.boundary_features]

\* Raw feature sequences a boundary function returns for a pair of groups.
PointSeq(n, rev) == [i \in 1..n |-> IF rev THEN n + 1 - i ELSE i]

BoundarySeqs == { PointSeq(n, rev) : n \in 1..MaxBoundary, rev \in BOOLEAN }

UnorderedPairs == { pr \in SUBSET GroupKeys : Cardinality(pr) = 2 }

\* The boundary function that returns pts for the linked pairs of groups
\* (and for a group paired with itself) and nothing for the others.
BoundaryFn(linked, pts) ==
    [p \in Keys \X Keys |->
        IF p[1] = p[2] \/ {p[1], p[2]} \in linked THEN pts ELSE <<>>]

BoundaryFns ==
    { BoundaryFn(linked, pts) : linked \in SUBSET UnorderedPairs,
                                pts \in BoundarySeqs }

RECURSIVE SeqsUpTo(_, _)
\* All sequences over S of length at most n.
SeqsUpTo(S, n) ==
    IF n = 0 THEN {<<>>}
    ELSE LET shorter == SeqsUpTo(S, n - 1)
         IN  shorter \cup { Append(q, e) : q \in shorter, e \in S }

----------------------------------------------------------------------------
(* SpecBoundary: one call of as_boundary_features or build_boundary_features *)

InitBoundary ==
    /\ pc = "start"
    /\ cov \in { c \in CovFuncs : c[<<1, 1>>] = 1 /\ c[<<1, 2>>] = 0 }
    /\ patchwork_functions \in
           { [grouper |-> <<>>, boundary |-> b, nearest_group |-> "none"] :
                 b \in BoundaryFns }
    /\ fit_models = NoFit
    /\ x = NoFeature
    /\ y = NoFeature
    /\ value = 0
    /\ groups = <<>>
    /\ features = <<>>
    /\ block_lhs = <<>>
    /\ block_rhs = <<>>
    /\ ret = NoRet
    /\ calls = <<>>

CallAsBoundaryFeatures ==
    \E lhs \in GroupKeys, rhs \in GroupKeys, fs \in BoundarySeqs \cup {<<>>} :
        /\ pc = "start"
        /\ pc' = "as_boundary_features"
        /\ groups' = <<lhs, rhs>>
        /\ features' = fs
        /\ ret' = [status |-> "ok",
                   boundary_features |-> as_boundary_features(lhs, rhs, fs)]
        /\ calls' = <<>>
        /\ UNCHANGED <<cov, patchwork_functions, fit_models, x, y, value,
                           block_lhs, block_rhs>>

CallBuildBoundaryFeatures ==
    \E gs \in SeqsUpTo(GroupKeys, MaxGroups) :
        LET out == build_boundary_features(patchwork_functions.boundary, gs)
        IN  /\ pc = "start"
            /\ pc' = "build_boundary_features"
            /\ groups' = gs
            /\ features' = <<>>
            /\ ret' = [status |-> out.status,
                       boundary_features |->
                           IF out.status = "ok"
                           THEN out.boundary_features ELSE <<>>]
            /\ calls' = [i \in 1..Len(out.calls) |->
                            [fn |-> "boundary", args |-> out.calls[i]]]
            /\ UNCHANGED <<cov, patchwork_functions, fit_models, x, y, value,
                           block_lhs, block_rhs>>

NextBoundary == CallAsBoundaryFeatures \/ CallBuildBoundaryFeatures

SpecBoundary == InitBoundary /\ [][NextBoundary]_vars

----------------------------------------------------------------------------
(* Grouped containers and block matrix algebra *)

\* A Grouped<Key, Value> is a function from a set of keys to values; the
\* empty Grouped is the empty function.
Size(grouped) == Cardinality(DOMAIN grouped)

RECURSIVE SortedSeq(_)
\* Grouped::keys(): the keys in ascending order.
SortedSeq(S) ==
    IF S = {} THEN <<>>
    ELSE LET least == CHOOSE a \in S : \A b \in S : a <= b
         IN  <<least>> \o SortedSeq(S \ {least})

GroupedKeys(grouped) == SortedSeq(DOMAIN grouped)

\* Matrices are sequences of rows.
Rows(m) == Len(m)
Cols(m) == IF Len(m) = 0 THEN 0 ELSE Len(m[1])

Transpose(m) == [j \in 1..Cols(m) |-> [i \in 1..Rows(m) |-> m[i][j]]]

RECURSIVE Dot(_, _, _)
Dot(u, v, n) == IF n = 0 THEN 0 ELSE Dot(u, v, n - 1) + u[n] * v[n]

MatMul(a, b) ==
    [i \in 1..Rows(a) |->
        [j \in 1..Cols(b) |-> Dot(a[i], [t \in 1..Rows(b) |-> b[t][j]], Rows(b))]]

MatAdd(a, b) == [i \in 1..Rows(a) |-> [j \in 1..Cols(a) |-> a[i][j] + b[i][j]]]

Scale(m, c) == [i \in 1..Rows(m) |-> [j \in 1..Cols(m) |-> c * m[i][j]]]

\* The matrix m without row i and column j.
Minor(m, i, j) ==
    [r \in 1..(Rows(m) - 1) |->
        [c \in 1..(Cols(m) - 1) |->
            m[IF r < i THEN r ELSE r + 1][IF c < j THEN c ELSE c + 1]]]

Sign(n) == IF n % 2 = 0 THEN 1 ELSE -1

RECURSIVE Det(_), DetFrom(_, _)
\* Determinant, expanded along the first row (columns 1..j).
DetFrom(m, j) ==
    IF j = 0 THEN 0
    ELSE DetFrom(m, j - 1) + Sign(1 + j) * m[1][j] * Det(Minor(m, 1, j))

Det(m) == IF Rows(m) = 0 THEN 1 ELSE DetFrom(m, Cols(m))

Adjugate(m) ==
    [i \in 1..Rows(m) |->
        [j \in 1..Rows(m) |-> Sign(i + j) * Det(Minor(m, j, i))]]

\* An Eigen::MatrixXd in exact arithmetic: integer entries num over the common
\* denominator den. The denominator 0 marks a matrix computed from a
\* factorization that could not be solved.
Matrix(rows) == [num |-> rows, den |-> 1]

TransposeOf(a) == [num |-> Transpose(a.num), den |-> a.den]

ProductReversed(a, b) ==
    [num |-> MatMul(b.num, a.num), den |-> a.den * b.den]

Product(a, b) == [num |-> MatMul(a.num, b.num), den |-> a.den * b.den]

Sum(a, b) ==
    [num |-> MatAdd(Scale(a.num, b.den), Scale(b.num, a.den)),
     den |-> a.den * b.den]

Difference(a, b) == Sum(a, [num |-> Scale(b.num, -1), den |-> b.den])

\* m.ldlt(): the factorization object of m. Nothing in it is inspected by the
\* caller; it solves exactly when m is invertible.
Ldlt(m) == [factorized |-> m]

\* solver.solve(b) = m^-1 * b, with m^-1 = adj(m) / det(m); a singular m
\* yields a matrix with denominator 0.
LdltSolve(solver, b) ==
    LET a == solver.factorized
    IN  [num |-> Scale(MatMul(Adjugate(a.num), b.num), a.den),
         den |-> IF a.den = 0 THEN 0 ELSE Det(a.num) * b.den]

\* A matrix with its numerators and denominator divided by a common factor:
\* the same Eigen::MatrixXd.
RECURSIVE Gcd(_, _)
Gcd(a, b) == IF b = 0 THEN a ELSE Gcd(b, a % b)

Abs(a) == IF a < 0 THEN -a ELSE a

RECURSIVE GcdOfRow(_, _, _)
GcdOfRow(row, n, acc) ==
    IF n = 0 THEN acc ELSE GcdOfRow(row, n - 1, Gcd(Abs(row[n]), acc))

RECURSIVE GcdOfRows(_, _, _)
GcdOfRows(rows, n, acc) ==
    IF n = 0 THEN acc
    ELSE GcdOfRows(rows, n - 1, GcdOfRow(rows[n], Len(rows[n]), acc))

Reduced(m) ==
    LET g == GcdOfRows(m.num, Len(m.num), Abs(m.den))
        d == IF g = 0 THEN 1 ELSE IF m.den < 0 THEN -g ELSE g
    IN  [num |-> [i \in 1..Len(m.num) |->
                     [j \in 1..Len(m.num[i]) |-> m.num[i][j] \div d]],
         den |-> m.den \div d]

\* The apply_function of block_product ("product"), of block_inner_product
\* ("inner_product") and of the solver of _predict_impl
\* ("SiCtAi_rhs_block", which captures S_bb_ldlt).
ApplyFunction(apply_function, a, b) ==
    IF apply_function.kind = "product" THEN Product(a, b)
    ELSE IF apply_function.kind = "inner_product"
    THEN Product(TransposeOf(a), b)
    ELSE Reduced(LdltSolve(apply_function.S_bb_ldlt,
                           Reduced(Product(TransposeOf(a), b))))

NoOutput == [status |-> "ok", value |-> <<>>, applied |-> <<>>]

AssertFailed(applied_) ==
    [status |-> "assert_failed", value |-> <<>>, applied |-> applied_]

RECURSIVE AccumulateSkipsFirst(_, _, _, _, _, _)
AccumulateSkipsFirst(lhs, rhs, apply_function, keys, i, output) ==
    IF i > Len(keys) \/ output.status # "ok" THEN output
    ELSE IF ~(keys[i] \in DOMAIN lhs /\ keys[i] \in DOMAIN rhs)
    THEN AssertFailed(output.applied)
    ELSE LET one == ApplyFunction(apply_function, lhs[keys[i]], rhs[keys[i]])
         IN  AccumulateSkipsFirst(lhs, rhs, apply_function, keys, i + 1,
                 [status |-> "ok",
                  value |-> IF i <= 2 THEN one ELSE Sum(output.value, one),
                  applied |-> Append(output.applied, keys[i])])

RECURSIVE AccumulateFrom(_, _, _, _, _, _)
\* output = one_group(keys[0]); output += one_group(keys[i]) for i = 1, ...;
\* one_group asserts that both operands contain the key. applied lists the
\* keys apply_function was applied to.
AccumulateFrom(lhs, rhs, apply_function, keys, i, output) ==
    IF i > Len(keys) \/ output.status # "ok" THEN output
    ELSE IF ~(keys[i] \in DOMAIN lhs /\ keys[i] \in DOMAIN rhs)
    THEN AssertFailed(output.applied)
    ELSE LET one == ApplyFunction(apply_function, lhs[keys[i]], rhs[keys[i]])
         IN  AccumulateFrom(lhs, rhs, apply_function, keys, i + 1,
                 [status |-> "ok",
                  value |-> IF i = 1 THEN one ELSE Sum(output.value, one),
                  applied |-> Append(output.applied, keys[i])])

block_accumulate_allows_empty(lhs, rhs, apply_function) ==
    IF Size(lhs) # Size(rhs) THEN AssertFailed(<<>>)
    ELSE AccumulateFrom(lhs, rhs, apply_function, GroupedKeys(lhs), 1,
                        NoOutput)

\* block_accumulate: the two size assertions, then the sum over lhs.keys().
block_accumulate(lhs, rhs, apply_function) ==
    IF Size(lhs) # Size(rhs) THEN AssertFailed(<<>>)
    ELSE IF ~(Size(lhs) > 0) THEN AssertFailed(<<>>)
    ELSE AccumulateFrom(lhs, rhs, apply_function, GroupedKeys(lhs), 1,
                        NoOutput)

block_product(lhs, rhs) ==
    block_accumulate(lhs, rhs, [kind |-> "product"])

block_inner_product(lhs, rhs) ==
    block_accumulate(lhs, rhs, [kind |-> "inner_product"])

block_solve_first_solver(lhs, rhs) ==
    IF \E key \in DOMAIN rhs : key \notin DOMAIN lhs
    THEN [status |-> "out_of_range", value |-> <<>>]
    ELSE [status |-> "ok",
          value |-> [key \in DOMAIN rhs |->
                        LdltSolve(lhs[GroupedKeys(lhs)[1]], rhs[key])]]

\* block_solve: rhs.apply(solve_one_block); lhs.at(key) throws for a key of
\* rhs that lhs lacks.
block_solve(lhs, rhs) ==
    IF \E key \in DOMAIN rhs : key \notin DOMAIN lhs
    THEN [status |-> "out_of_range", value |-> <<>>]
    ELSE [status |-> "ok",
          value |-> [key \in DOMAIN rhs |-> LdltSolve(lhs[key], rhs[key])]]

----------------------------------------------------------------------------
(* Collaborators of the patchwork model *)

\* Grouping functions: cells of a given width along the raw feature axis.
GrouperFn(width) == [f \in Raw |-> ((f - 1) \div width) + 1]

GrouperFns == { GrouperFn(width) : width \in 1..MaxFeature }

Distance(a, b) == IF a < b THEN b - a ELSE a - b

\* nearest_group(groups, query): the query itself when present, otherwise the
\* closest key of the list (the smaller one on a tie).
nearest_group(gs, query) ==
    LET present == { gs[i] : i \in 1..Len(gs) }
    IN  IF query \in present \/ present = {} THEN query
        ELSE CHOOSE a \in present :
                 \A b \in present :
                     \/ Distance(a, query) < Distance(b, query)
                     \/ Distance(a, query) = Distance(b, query) /\ a <= b

\* Boundary functions of the model instances: one boundary point between
\* linked neighbouring groups.
AdjacentPairs == { pr \in UnorderedPairs : \E a \in pr : a + 1 \in pr }

ModelBoundaryFns ==
    { BoundaryFn(linked, <<1>>) : linked \in SUBSET AdjacentPairs }

\* The boundary function of a freshly constructed model instance: every pair
\* of neighbouring groups is linked.
InitialBoundaryFn == BoundaryFn(AdjacentPairs, <<1>>)

PatchworkFunctions ==
    { [grouper |-> g, boundary |-> b, nearest_group |-> "nearest"] :
          g \in GrouperFns, b \in ModelBoundaryFns }

\* FitModel of the single-group Gaussian process: its training data.
FitModel(train_features_, targets_) ==
    [train_features |-> train_features_, targets |-> targets_]

\* fit_model.get_fit().train_covariance: the factorization of the covariance
\* of the group's training features under the model's covariance function.
train_covariance(k, fit_model) ==
    LET fs == fit_model.train_features
    IN  Ldlt(Matrix([i \in 1..Len(fs) |->
                        [j \in 1..Len(fs) |-> DefaultCaller(k, fs[i], fs[j])]]))

\* fit_model.predict(features).joint() of the single-group Gaussian process.
JointPredict(fit_model, fs) == [by |-> fit_model, at |-> fs]

\* A call of a collaborator, as recorded in calls.
Invocation(fn_, args_) == [fn |-> fn_, args |-> args_]

\* compute_covariance_matrix(caller, xs, ys) with the patchwork caller.
patchwork_covariance_matrix(k, xs, ys) ==
    [i \in 1..Len(xs) |-> [j \in 1..Len(ys) |-> PatchworkCaller(k, xs[i], ys[j])]]

\* Positions of fs whose key under key_of is key, in order.
RECURSIVE Select(_, _, _)
Select(key_of, key, n) ==
    IF n = 0 THEN <<>>
    ELSE IF key_of[n] = key
    THEN Append(Select(key_of, key, n - 1), n)
    ELSE Select(key_of, key, n - 1)

\* group_by(features, grouper): key -> the features of that key, in order.
group_by(fs, key_of) ==
    [key \in { key_of[i] : i \in 1..Len(fs) } |->
        LET idx == Select(key_of, key, Len(fs))
        IN  [i \in 1..Len(idx) |-> fs[idx[i]]]]

RECURSIVE Concat(_, _, _)
\* Concatenation of seqs[keys[i]] for i = 1..n.
Concat(seqs, keys, n) ==
    IF n = 0 THEN <<>> ELSE Concat(seqs, keys, n - 1) \o seqs[keys[n]]

as_group_features_descending(grouped) ==
    LET keys == GroupedKeys(grouped)
        n == Len(keys)
    IN  Concat([key \in DOMAIN grouped |-> as_group_features(key, grouped[key])],
               [i \in 1..n |-> keys[n + 1 - i]], n)

\* as_group_features(GroupBy): group features key by key.
as_group_features_grouped(grouped) ==
    Concat([key \in DOMAIN grouped |-> as_group_features(key, grouped[key])],
           GroupedKeys(grouped), Size(grouped))

----------------------------------------------------------------------------
(* PatchworkGaussianProcess *)

\* The matrices and factorizations _predict_impl computes after the boundary
\* features are built, in program order.
PredictSteps ==
    <<"C_bb", "C_bb_ldlt", "C_dd", "C_db", "C_dd_inv_C_db", "S_bb",
      "S_bb_ldlt", "information", "C_bb_inv_C_bd_information", "C_fb",
      "C_fb_bb_inv", "cross_transpose", "C_dd_inv_cross", "mean",
      "explained", "cov">>

NoDist == [size |-> 0, order |-> <<>>]

\* get_obs_vector applied to every fit model, in key order.
ObsVectorCalls(fm) ==
    LET keys == GroupedKeys(fm)
    IN  [i \in 1..Len(keys) |->
            Invocation("fit_model.predict",
                       <<keys[i], fm[keys[i]].train_features>>)]

BoundaryCalls(pairs) ==
    [i \in 1..Len(pairs) |-> Invocation("boundary", pairs[i])]

\* predict_grouper applied to every query feature: grouper, then nearest_group.
RECURSIVE PredictGrouperCalls(_, _, _, _)
PredictGrouperCalls(pf, keys, fs, n) ==
    IF n = 0 THEN <<>>
    ELSE PredictGrouperCalls(pf, keys, fs, n - 1)
         \o <<Invocation("grouper", <<fs[n]>>),
              Invocation("nearest_group", <<keys, pf.grouper[fs[n]]>>)>>

predict_grouper_natural(pf, keys, f) == pf.grouper[f]

\* predict_grouper: the fitted group nearest to the query's own group.
predict_grouper(pf, keys, f) == nearest_group(keys, pf.grouper[f])

\* The part of _predict_impl that follows the single-group shortcut.
PredictMultiGroup(k, pf, fm, fs) ==
    LET keys == GroupedKeys(fm)
        built == build_boundary_features(pf.boundary, keys)
        boundary_features == built.boundary_features
        C_bb == patchwork_covariance_matrix(k, boundary_features,
                                            boundary_features)
        C_db == [key \in DOMAIN fm |->
                    patchwork_covariance_matrix(k,
                        as_group_features(key, fm[key].train_features),
                        boundary_features)]
        C_dd == [key \in DOMAIN fm |-> train_covariance(k, fm[key])]
        C_dd_inv_C_db ==
            block_solve(C_dd, [key \in DOMAIN fm |-> Matrix(C_db[key])]).value
        C_bd_dd_inv_C_db ==
            block_inner_product([key \in DOMAIN fm |-> Matrix(C_db[key])],
                                C_dd_inv_C_db)
        S_bb == Difference(Matrix(C_bb), C_bd_dd_inv_C_db.value)
        query_key == [i \in 1..Len(fs) |-> predict_grouper(pf, keys, fs[i])]
        grouped == group_by(fs, query_key)
        group_features == as_group_features_grouped(grouped)
        C_fb == patchwork_covariance_matrix(k, group_features,
                                            boundary_features)
    IN  IF built.status # "ok"
        THEN [ret |-> [status |-> "assert_failed",
                       computed |-> <<>>,
                       boundary_features |-> <<>>,
                       dist |-> NoDist],
              calls |-> ObsVectorCalls(fm) \o BoundaryCalls(built.calls)]
        ELSE IF C_bd_dd_inv_C_db.status # "ok"
        THEN [ret |-> [status |-> "assert_failed",
                       computed |-> SubSeq(PredictSteps, 1, 5),
                       boundary_features |-> boundary_features,
                       dist |-> NoDist],
              calls |-> ObsVectorCalls(fm) \o BoundaryCalls(built.calls)]
        ELSE [ret |-> [status |-> "ok",
                       computed |-> PredictSteps,
                       boundary_features |-> boundary_features,
                       C_bb |-> C_bb,
                       C_db |-> C_db,
                       S_bb |-> S_bb,
                       C_fb |-> C_fb,
                       dist |-> [size |-> Len(group_features),
                                 order |-> group_features]],
              calls |-> ObsVectorCalls(fm) \o BoundaryCalls(built.calls)
                        \o ObsVectorCalls(fm)
                        \o PredictGrouperCalls(pf, keys, fs, Len(fs))]

PredictWithoutShortcut(k, pf, fm, fs) == PredictMultiGroup(k, pf, fm, fs)

\* PatchworkGaussianProcess::_predict_impl
predict_impl(k, pf, fm, fs) ==
    IF Size(fm) = 1
    THEN LET key == GroupedKeys(fm)[1]
         IN  [ret |-> [status |-> "ok",
                       computed |-> <<>>,
                       boundary_features |-> <<>>,
                       dist |-> JointPredict(fm[key], fs)],
              calls |-> <<Invocation("fit_model.predict", <<key, fs>>)>>]
    ELSE PredictMultiGroup(k, pf, fm, fs)

fit_impl_whole_dataset(pf, fs, targets) ==
    LET key_of == [i \in 1..Len(fs) |-> pf.grouper[fs[i]]]
    IN  [fit_models |-> [key \in { key_of[i] : i \in 1..Len(fs) } |->
                            FitModel(fs, targets)],
         calls |-> [i \in 1..Len(fs) |-> Invocation("grouper", <<fs[i]>>)]]

fit_impl_eager_boundaries(pf, fs, targets) ==
    LET key_of == [i \in 1..Len(fs) |-> pf.grouper[fs[i]]]
        grouped_features == group_by(fs, key_of)
        grouped_targets == group_by(targets, key_of)
        fm == [key \in DOMAIN grouped_features |->
                  FitModel(grouped_features[key], grouped_targets[key])]
        built == build_boundary_features(pf.boundary, GroupedKeys(fm))
    IN  [fit_models |-> fm,
         calls |-> [i \in 1..Len(fs) |-> Invocation("grouper", <<fs[i]>>)]
                   \o BoundaryCalls(built.calls)]

\* PatchworkGaussianProcess::_fit_impl: one fit model per group of the dataset.
fit_impl(pf, fs, targets) ==
    LET key_of == [i \in 1..Len(fs) |-> pf.grouper[fs[i]]]
        grouped_features == group_by(fs, key_of)
        grouped_targets == group_by(targets, key_of)
    IN  [fit_models |-> [key \in DOMAIN grouped_features |->
                            FitModel(grouped_features[key],
                                     grouped_targets[key])],
         calls |-> [i \in 1..Len(fs) |-> Invocation("grouper", <<fs[i]>>)]]

\* A Grouped operand of the block operations: a 2x2 block per key.
BlockOperand(keys, base) ==
    [key \in keys |-> Matrix(<<<<key + base, 1>>, <<0, 1>>>>)]

\* A Grouped of factorizations of symmetric, invertible 2x2 blocks.
SolverOperand(keys) ==
    [key \in keys |-> Ldlt(Matrix(<<<<key + 1, 1>>, <<1, 1>>>>))]

----------------------------------------------------------------------------
(* Spec: a model instance is constructed, fitted and asked to predict *)

Init ==
    /\ pc = "constructed"
    /\ cov \in { c \in CovFuncs : c[<<1, 1>>] = 1 }
    /\ patchwork_functions \in
           { pf \in PatchworkFunctions : pf.boundary = InitialBoundaryFn }
    /\ fit_models = NoFit
    /\ x = NoFeature
    /\ y = NoFeature
    /\ value = 0
    /\ groups = <<>>
    /\ features = <<>>
    /\ block_lhs = <<>>
    /\ block_rhs = <<>>
    /\ ret = NoRet
    /\ calls = <<>>

\* fit(features, targets); the targets are tagged by their position.
Fit ==
    /\ pc = "constructed"
    /\ \E fs \in SeqsUpTo(Raw, MaxData) :
        LET out == fit_impl(patchwork_functions, fs, [i \in 1..Len(fs) |-> i])
        IN  /\ pc' = "fit"
            /\ features' = fs
            /\ fit_models' = out.fit_models
            /\ calls' = out.calls
            /\ ret' = [status |-> "ok"]
            /\ UNCHANGED <<cov, patchwork_functions, x, y, value, groups,
                           block_lhs, block_rhs>>

Reverse(fs) == [i \in 1..Len(fs) |-> fs[Len(fs) + 1 - i]]

\* Feature vectors of full length in strictly ascending order.
AscendingQueries ==
    { fs \in SeqsUpTo(Raw, MaxQuery) :
          /\ Len(fs) = MaxQuery
          /\ \A i \in 1..(Len(fs) - 1) : fs[i] < fs[i + 1] }

\* The query of a predict call: any feature vector on the first call of a
\* fitted model instance, an ascending one on the first call of an instance
\* made by from_fit_models, the previous query in reverse order on a
\* repeated call.
Queries ==
    IF pc = "predicted" THEN {Reverse(features)}
    ELSE IF pc = "from_fit_models" THEN AscendingQueries
    ELSE SeqsUpTo(Raw, MaxQuery)

PredictRemembers ==
    /\ pc \in {"constructed", "fit", "from_fit_models", "predicted"}
    /\ \E fs \in Queries :
        LET out == predict_impl(cov, patchwork_functions, fit_models, fs)
        IN  /\ pc' = "predicted"
            /\ features' = fs
            /\ ret' = IF pc = "predicted" THEN ret ELSE out.ret
            /\ calls' = out.calls
            /\ UNCHANGED <<cov, patchwork_functions, fit_models, x, y, value,
                           groups, block_lhs, block_rhs>>

\* predict(features).joint() on the current Fit state.
Predict ==
    /\ pc \in {"constructed", "fit", "from_fit_models", "predicted"}
    /\ \E fs \in Queries :
        LET out == predict_impl(cov, patchwork_functions, fit_models, fs)
        IN  /\ pc' = "predicted"
            /\ features' = fs
            /\ ret' = out.ret
            /\ calls' = out.calls
            /\ UNCHANGED <<cov, patchwork_functions, fit_models, x, y, value,
                           groups, block_lhs, block_rhs>>

\* block_inner_product(lhs, rhs) on two Grouped matrix collections.
BlockInnerProduct ==
    /\ pc = "constructed"
    /\ \E lkeys \in SUBSET GroupKeys, rkeys \in SUBSET GroupKeys :
        /\ pc' = "block_accumulate"
        /\ block_lhs' = BlockOperand(lkeys, 0)
        /\ block_rhs' = BlockOperand(rkeys, 1)
        /\ ret' = block_inner_product(BlockOperand(lkeys, 0),
                                      BlockOperand(rkeys, 1))
        /\ calls' = <<>>
        /\ UNCHANGED <<cov, patchwork_functions, fit_models, x, y, value,
                       groups, features>>

\* Resolutions of the boundary between two neighbouring groups: no boundary
\* point, or the first n points.
BoundaryResolutions ==
    {<<>>} \cup { PointSeq(n, FALSE) : n \in 1..MaxBoundary }

\* The boundary function b with the boundary between the two groups of pr
\* replaced by pts.
WithBoundary(b, pr, pts) ==
    [p \in DOMAIN b |-> IF {p[1], p[2]} = pr THEN pts ELSE b[p]]

\* Another model instance, whose boundary function has one boundary point
\* more or fewer for one pair of neighbouring fitted groups, takes over the
\* fit models:
\* PatchworkGaussianProcess(cov, functions).from_fit_models(fit_models).
FromFitModels ==
    /\ pc = "predicted"
    /\ \E pr \in { q \in AdjacentPairs : q \subseteq DOMAIN fit_models },
          pts \in BoundaryResolutions :
        /\ \A a \in pr : \A b \in pr \ {a} :
               Distance(Len(pts), Len(patchwork_functions.boundary[<<a, b>>]))
                   = 1
        /\ pc' = "from_fit_models"
        /\ patchwork_functions' =
               [patchwork_functions EXCEPT
                    !.boundary = WithBoundary(patchwork_functions.boundary,
                                              pr, pts)]
        /\ features' = <<>>
        /\ ret' = [status |-> "ok"]
        /\ calls' = <<>>
        /\ UNCHANGED <<cov, fit_models, x, y, value, groups, block_lhs,
                       block_rhs>>

\* block_product(lhs, rhs) on two Grouped matrix collections.
BlockProduct ==
    /\ pc = "constructed"
    /\ \E lkeys \in SUBSET GroupKeys, rkeys \in SUBSET GroupKeys :
        /\ pc' = "block_product"
        /\ block_lhs' = BlockOperand(lkeys, 0)
        /\ block_rhs' = BlockOperand(rkeys, 1)
        /\ ret' = block_product(BlockOperand(lkeys, 0),
                                BlockOperand(rkeys, 1))
        /\ calls' = <<>>
        /\ UNCHANGED <<cov, patchwork_functions, fit_models, x, y, value,
                       groups, features>>

\* block_solve(lhs, rhs) on a Grouped of factorizations and a Grouped of
\* right-hand sides.
BlockSolve ==
    /\ pc = "constructed"
    /\ \E lkeys \in SUBSET GroupKeys, rkeys \in SUBSET GroupKeys :
        /\ pc' = "block_solve"
        /\ block_lhs' = SolverOperand(lkeys)
        /\ block_rhs' = BlockOperand(rkeys, 1)
        /\ ret' = block_solve(SolverOperand(lkeys), BlockOperand(rkeys, 1))
        /\ calls' = <<>>
        /\ UNCHANGED <<cov, patchwork_functions, fit_models, x, y, value,
                       groups, features>>

\* block_product(A, block_solve(A.ldlt(), B)): the blocks of A multiplied
\* with the solution of A against B.
BlockSolveProduct ==
    /\ pc = "constructed"
    /\ \E lkeys \in SUBSET GroupKeys, rkeys \in SUBSET GroupKeys :
        LET solved == block_solve(SolverOperand(lkeys), BlockOperand(rkeys, 1))
        IN  /\ pc' = "block_solve_product"
            /\ block_lhs' = SolverOperand(lkeys)
            /\ block_rhs' = BlockOperand(rkeys, 1)
            /\ ret' = IF solved.status # "ok"
                      THEN [status |-> solved.status, value |-> <<>>,
                            applied |-> <<>>]
                      ELSE block_product(
                               [key \in lkeys |->
                                   SolverOperand(lkeys)[key].factorized],
                               solved.value)
            /\ calls' = <<>>
            /\ UNCHANGED <<cov, patchwork_functions, fit_models, x, y, value,
                           groups, features>>

Next ==
    \/ Fit
    \/ Predict
    \/ FromFitModels
    \/ BlockInnerProduct
    \/ BlockProduct
    \/ BlockSolve
    \/ BlockSolveProduct

Spec == Init /\ [][Next]_vars

----------------------------------------------------------------------------
(* SpecSolver: the generalized solver of _predict_impl on a fitted model *)

\* fit_model.predict(fs).mean() of the single-group Gaussian process: the
\* covariance of fs with the training features times the solve of the
\* training covariance against the targets.
PredictMean(k, fit_model, fs) ==
    LET train == fit_model.train_features
        cross == [i \in 1..Len(fs) |->
                     [j \in 1..Len(train) |->
                         DefaultCaller(k, fs[i], train[j])]]
        targets == [i \in 1..Len(train) |-> <<fit_model.targets[i]>>]
    IN  Reduced(Product(Matrix(cross),
                        LdltSolve(train_covariance(k, fit_model),
                                  Matrix(targets))))

\* get_obs_vector(fit_model)
get_obs_vector(k, fit_model) ==
    PredictMean(k, fit_model, fit_model.train_features)

\* The matrices _predict_impl builds before the solver: boundary_features,
\* C_bb, C_dd, C_db and S_bb.
PredictMatrices(k, pf, fm) ==
    LET built == build_boundary_features(pf.boundary, GroupedKeys(fm))
        boundary_features == built.boundary_features
        C_db == [key \in DOMAIN fm |->
                    Matrix(patchwork_covariance_matrix(k,
                        as_group_features(key, fm[key].train_features),
                        boundary_features))]
        C_dd == [key \in DOMAIN fm |-> train_covariance(k, fm[key])]
        C_dd_inv_C_db == block_solve(C_dd, C_db).value
        C_bb == Matrix(patchwork_covariance_matrix(k, boundary_features,
                                                   boundary_features))
    IN  [status |-> built.status,
         C_bb |-> C_bb,
         C_dd |-> C_dd,
         C_db |-> C_db,
         S_bb |-> IF built.status # "ok" THEN C_bb
                  ELSE Reduced(Difference(C_bb,
                           block_inner_product(C_db, C_dd_inv_C_db).value))]

NoSolution(status_) == [status |-> status_, value |-> <<>>]

solver_without_Ai_rhs(C_dd, C_db, S_bb_ldlt, rhs) ==
    LET Ai_rhs == block_solve(C_dd, rhs)
        SiCtAi_rhs ==
            block_accumulate(C_db, Ai_rhs.value,
                [kind |-> "SiCtAi_rhs_block", S_bb_ldlt |-> S_bb_ldlt])
        CSiCtAi_rhs ==
            [key \in DOMAIN C_db |->
                Reduced(Product(C_db[key], SiCtAi_rhs.value))]
    IN  IF Ai_rhs.status # "ok" THEN NoSolution(Ai_rhs.status)
        ELSE IF SiCtAi_rhs.status # "ok" THEN NoSolution(SiCtAi_rhs.status)
        ELSE block_solve(C_dd, CSiCtAi_rhs)

\* The lambda solver of _predict_impl:
\* A^-1 rhs + A^-1 C S^-1 C^T A^-1 rhs with A = C_dd, C = C_db, S = S_bb.
solver(C_dd, C_db, S_bb_ldlt, rhs) ==
    LET Ai_rhs == block_solve(C_dd, rhs)
        SiCtAi_rhs ==
            block_accumulate(C_db, Ai_rhs.value,
                [kind |-> "SiCtAi_rhs_block", S_bb_ldlt |-> S_bb_ldlt])
        CSiCtAi_rhs ==
            [key \in DOMAIN C_db |->
                Reduced(Product(C_db[key], SiCtAi_rhs.value))]
        output == block_solve(C_dd, CSiCtAi_rhs)
    IN  IF Ai_rhs.status # "ok" THEN NoSolution(Ai_rhs.status)
        ELSE IF SiCtAi_rhs.status # "ok" THEN NoSolution(SiCtAi_rhs.status)
        ELSE [status |-> "ok",
              value |-> [key \in DOMAIN output.value |->
                            Reduced(Sum(output.value[key],
                                        Ai_rhs.value[key]))]]

\* const auto ys = fit_models.apply(get_obs_vector);
\* const auto information = solver(ys);
information(k, pf, fm) ==
    LET mats == PredictMatrices(k, pf, fm)
        ys == [key \in DOMAIN fm |-> get_obs_vector(k, fm[key])]
    IN  [rhs |-> ys,
         solved |-> solver(mats.C_dd, mats.C_db, Ldlt(mats.S_bb), ys)]

\* Position p of the stacked training features: its key and its position
\* inside the key's block.
KeyAt(fm) ==
    Concat([key \in DOMAIN fm |->
               [i \in 1..Len(fm[key].train_features) |-> key]],
           GroupedKeys(fm), Size(fm))

LocalAt(fm) ==
    Concat([key \in DOMAIN fm |->
               [i \in 1..Len(fm[key].train_features) |-> i]],
           GroupedKeys(fm), Size(fm))

\* A right-hand side of the shape of cross_transpose: one column, 1 at the
\* stacked position p and 0 elsewhere.
UnitRhs(fm, p) ==
    [key \in DOMAIN fm |->
        Matrix([i \in 1..Len(fm[key].train_features) |->
                   <<IF KeyAt(fm)[p] = key /\ LocalAt(fm)[p] = i
                     THEN 1 ELSE 0>>])]

\* The training features of the fitted models: up to MaxTrain features in
\* ascending order, repeated features included.
TrainingFeatures ==
    { fs \in SeqsUpTo(Raw, MaxTrain) :
          \A i \in 1..(Len(fs) - 1) : fs[i] <= fs[i + 1] }

\* A fitted model: fit(features, targets) has run on training features.
InitSolver ==
    /\ pc = "fit"
    /\ cov \in CovFuncs
    /\ patchwork_functions \in PatchworkFunctions
    /\ \E fs \in TrainingFeatures :
           /\ features = fs
           /\ fit_models = fit_impl(patchwork_functions, fs,
                                    [i \in 1..Len(fs) |-> i]).fit_models
    /\ x = NoFeature
    /\ y = NoFeature
    /\ value = 0
    /\ groups = <<>>
    /\ block_lhs = <<>>
    /\ block_rhs = <<>>
    /\ ret = [status |-> "ok"]
    /\ calls = <<>>

\* _predict_impl up to the information vector; the boundary features exist
\* (assert at the end of build_boundary_features) and there are two or more
\* fit models.
CallInformation ==
    /\ pc = "fit"
    /\ Size(fit_models) > 1
    /\ PredictMatrices(cov, patchwork_functions, fit_models).status = "ok"
    /\ pc' = "information"
    /\ block_rhs' = information(cov, patchwork_functions, fit_models).rhs
    /\ ret' = information(cov, patchwork_functions, fit_models).solved
    /\ UNCHANGED <<cov, patchwork_functions, fit_models, x, y, value, groups,
                   features, block_lhs, calls>>

\* solver(rhs) on a right-hand side other than the observation vectors.
CallSolver ==
    /\ pc = "fit"
    /\ Size(fit_models) > 1
    /\ PredictMatrices(cov, patchwork_functions, fit_models).status = "ok"
    /\ \E p \in 1..Len(features) :
        LET mats == PredictMatrices(cov, patchwork_functions, fit_models)
        IN  /\ pc' = "solver"
            /\ value' = p
            /\ block_rhs' = UnitRhs(fit_models, p)
            /\ ret' = solver(mats.C_dd, mats.C_db, Ldlt(mats.S_bb),
                             UnitRhs(fit_models, p))
            /\ UNCHANGED <<cov, patchwork_functions, fit_models, x, y,
                           groups, features, block_lhs, calls>>

NextSolver == CallInformation \/ CallSolver

SpecSolver == InitSolver /\ [][NextSolver]_vars

----------------------------------------------------------------------------
(* SpecConfig: a model type is instantiated with a PatchworkFunctions type *)

\* What the compiler sees of each of the three methods of a PatchworkFunctions
\* type: the return type, or that the method is missing.
GrouperSignatures == {"GroupKey", "missing", "invalid key"}
BoundarySignatures == {"std::vector", "missing", "derived from std::vector"}
NearestGroupSignatures == {"GroupKey", "missing", "const GroupKey &"}

FunctionSignatures ==
    { [grouper |-> g, boundary |-> b, nearest_group |-> n] :
          g \in GrouperSignatures, b \in BoundarySignatures,
          n \in NearestGroupSignatures }

\* details::patchwork_functions_are_valid<T, FeatureType>::value
patchwork_functions_are_valid(pf) ==
    LET has_valid_grouper == pf.grouper = "GroupKey"
        has_valid_boundary == pf.boundary = "std::vector"
        has_valid_nearest_group == pf.nearest_group = "GroupKey"
    IN  has_valid_grouper /\ has_valid_boundary /\ has_valid_nearest_group

\* What the compilation of _predict_impl can do with the bundle: it calls the
\* three methods and asserts nothing about them. A missing method does not
\* compile; a boundary type derived from std::vector and a nearest_group that
\* returns a reference compile; a key type the trait rejects may or may not.
PredictCompiles(pf) ==
    IF "missing" \in {pf.grouper, pf.boundary, pf.nearest_group}
    THEN {"compile_error"}
    ELSE IF pf.grouper = "invalid key" THEN {"compile_error", "ok"}
    ELSE {"ok"}

InitConfig ==
    /\ pc = "declared"
    /\ cov \in { c \in CovFuncs : c[<<1, 1>>] = 1 /\ c[<<1, 2>>] = 0 }
    /\ patchwork_functions \in FunctionSignatures
    /\ fit_models = NoFit
    /\ x = NoFeature
    /\ y = NoFeature
    /\ value = 0
    /\ groups = <<>>
    /\ features = <<>>
    /\ block_lhs = <<>>
    /\ block_rhs = <<>>
    /\ ret = NoRet
    /\ calls = <<>>

\* A call of fit instantiates _fit_impl, whose first statement is the
\* static_assert on patchwork_functions_are_valid.
InstantiateFit ==
    /\ pc = "declared"
    /\ pc' = "fit"
    /\ ret' = [status |-> IF patchwork_functions_are_valid(patchwork_functions)
                          THEN "ok" ELSE "static_assert_failed"]
    /\ calls' = Append(calls, Invocation("_fit_impl", <<>>))
    /\ UNCHANGED <<cov, patchwork_functions, fit_models, x, y, value, groups,
                   features, block_lhs, block_rhs>>

\* from_fit_models wraps the given fit models; it names none of the three
\* methods and asserts nothing.
InstantiateFromFitModels ==
    /\ pc = "declared"
    /\ pc' = "from_fit_models"
    /\ ret' = [status |-> "ok"]
    /\ calls' = Append(calls, Invocation("from_fit_models", <<>>))
    /\ UNCHANGED <<cov, patchwork_functions, fit_models, x, y, value, groups,
                   features, block_lhs, block_rhs>>

\* A call of predict on a fit model instantiates _predict_impl.
InstantiatePredict ==
    /\ pc \in {"fit", "from_fit_models"}
    /\ ret.status = "ok"
    /\ \E outcome \in PredictCompiles(patchwork_functions) :
        /\ pc' = "predict"
        /\ ret' = [status |-> outcome]
        /\ calls' = Append(calls, Invocation("_predict_impl", <<>>))
        /\ UNCHANGED <<cov, patchwork_functions, fit_models, x, y, value,
                       groups, features, block_lhs, block_rhs>>

NextConfig ==
    \/ InstantiateFit
    \/ InstantiateFromFitModels
    \/ InstantiatePredict

SpecConfig == InitConfig /\ [][NextConfig]_vars

----------------------------------------------------------------------------
(* SpecDistribution: distributions are constructed, subset and measured.
   Positions are counted from 1 here and from 0 in the program. *)

\* An Eigen matrix of the given shape; the coefficient at (i, j) names its
\* position. A matrix with no row or no column has size() = 0.
DenseMatrix(r, c) ==
    [rows |-> r, cols |-> c,
     coeff |-> [p \in (1..r) \X (1..c) |-> 10 * p[1] + p[2]]]

\* A default-constructed covariance.
NoCovariance == DenseMatrix(0, 0)

\* An Eigen vector of the given length; the coefficient names its position.
DenseVector(n) == [i \in 1..n |-> i]

\* The three constructors of Distribution: none of them looks at the shapes.
Distribution0 == [mean |-> <<>>, covariance |-> NoCovariance]
Distribution1(mean_) == [mean |-> mean_, covariance |-> NoCovariance]
Distribution2(mean_, covariance_) ==
    [mean |-> mean_, covariance |-> covariance_]

NoDistribution == [mean |-> <<>>, covariance |-> NoCovariance]

\* Distribution::assert_valid: TRUE when no assertion fails.
assert_valid(dist) ==
    IF dist.covariance.rows * dist.covariance.cols > 0
    THEN /\ dist.covariance.rows = dist.covariance.cols
         /\ Len(dist.mean) = dist.covariance.rows
    ELSE TRUE

\* Distribution::has_covariance: assert_valid, then covariance.size() > 0.
has_covariance(dist) ==
    IF ~assert_valid(dist) THEN [status |-> "assert_failed", value |-> FALSE]
    ELSE [status |-> "ok",
          value |-> dist.covariance.rows * dist.covariance.cols > 0]

\* Distribution::size: assert_valid, then mean.size().
DistributionSize(dist) ==
    IF ~assert_valid(dist) THEN [status |-> "assert_failed", value |-> 0]
    ELSE [status |-> "ok", value |-> Len(dist.mean)]

\* subset(indices, v) of a vector.
subset_vector(indices, v) == [i \in 1..Len(indices) |-> v[indices[i]]]

\* subset(row_indices, col_indices, v) of a matrix.
subset_matrix(row_indices, col_indices, v) ==
    [rows |-> Len(row_indices), cols |-> Len(col_indices),
     coeff |-> [p \in (1..Len(row_indices)) \X (1..Len(col_indices)) |->
                   v.coeff[<<row_indices[p[1]], col_indices[p[2]]>>]]]

\* subset(dist, indices) of a Distribution.
subset_distribution(dist, indices) ==
    LET has == has_covariance(dist)
    IN  IF has.status # "ok"
        THEN [status |-> "assert_failed", value |-> NoDistribution]
        ELSE IF has.value
        THEN [status |-> "ok",
              value |-> Distribution2(subset_vector(indices, dist.mean),
                            subset_matrix(indices, indices, dist.covariance))]
        ELSE [status |-> "ok",
              value |-> Distribution1(subset_vector(indices, dist.mean))]

\* Position of e in the sequence s of distinct elements.
IndexOf(s, e) == CHOOSE i \in 1..Len(s) : s[i] = e

\* set_subset(from, indices, to) of vectors: to[indices[i]] = from[i].
set_subset_vector(from, indices, to) ==
    [i \in 1..Len(to) |->
        IF \E t \in 1..Len(indices) : indices[t] = i
        THEN from[IndexOf(indices, i)] ELSE to[i]]

\* set_subset(from, indices, to) of matrices, rows and columns alike.
set_subset_matrix(from, indices, to) ==
    [rows |-> to.rows, cols |-> to.cols,
     coeff |-> [p \in (1..to.rows) \X (1..to.cols) |->
                   IF /\ \E t \in 1..Len(indices) : indices[t] = p[1]
                      /\ \E t \in 1..Len(indices) : indices[t] = p[2]
                   THEN from.coeff[<<IndexOf(indices, p[1]),
                                     IndexOf(indices, p[2])>>]
                   ELSE to.coeff[p]]]

\* set_subset(from, indices, to) of Distributions.
set_subset_distribution(from, indices, to) ==
    LET has_from == has_covariance(from)
        has_to == has_covariance(to)
    IN  IF has_from.status # "ok" \/ has_to.status # "ok"
           \/ has_from.value # has_to.value
        THEN [status |-> "assert_failed", value |-> NoDistribution]
        ELSE [status |-> "ok",
              value |-> [mean |-> set_subset_vector(from.mean, indices,
                                                    to.mean),
                         covariance |->
                             IF has_from.value
                             THEN set_subset_matrix(from.covariance, indices,
                                                    to.covariance)
                             ELSE to.covariance]]

\* Lists of distinct positions of 1..n.
DistinctIndices(n) ==
    { s \in SeqsUpTo(1..n, n) : \A i \in 1..Len(s) : \A j \in 1..Len(s) :
                                  i # j => s[i] # s[j] }

InitDistribution ==
    /\ pc = "start"
    /\ cov \in { c \in CovFuncs : c[<<1, 1>>] = 1 /\ c[<<1, 2>>] = 0 }
    /\ patchwork_functions = NoFunctions
    /\ fit_models = NoFit
    /\ x = NoDistribution
    /\ y = NoDistribution
    /\ value = 0
    /\ groups = <<>>
    /\ features = <<>>
    /\ block_lhs = <<>>
    /\ block_rhs = <<>>
    /\ ret = NoRet
    /\ calls = <<>>

\* Distribution(), Distribution(mean) or Distribution(mean, covariance) with
\* any vector and any matrix the caller passes. x holds the distribution.
Construct ==
    /\ pc = "start"
    /\ \E args \in 0..2, n \in 0..MaxMean, r \in 0..MaxMean,
          c \in 0..MaxMean :
        /\ args = 0 => n = 0
        /\ args < 2 => r = 0 /\ c = 0
        /\ pc' = "distribution"
        /\ x' = IF args = 0 THEN Distribution0
                ELSE IF args = 1 THEN Distribution1(DenseVector(n))
                ELSE Distribution2(DenseVector(n), DenseMatrix(r, c))
        /\ ret' = [status |-> "ok"]
        /\ calls' = <<Invocation("Distribution", <<args>>)>>
        /\ UNCHANGED <<cov, patchwork_functions, fit_models, y, value,
                       groups, features, block_lhs, block_rhs>>

\* dist.size() on the constructed distribution.
CallSize ==
    /\ pc = "distribution"
    /\ pc' = "size"
    /\ ret' = DistributionSize(x)
    /\ calls' = Append(calls, Invocation("size", <<>>))
    /\ UNCHANGED <<cov, patchwork_functions, fit_models, x, y, value,
                   groups, features, block_lhs, block_rhs>>

\* subset(dist, indices) with positions of the mean, repeats allowed. ret
\* holds the new distribution.
CallSubset ==
    /\ pc = "distribution"
    /\ \E indices \in SeqsUpTo(1..Len(x.mean), MaxMean) :
        /\ pc' = "subset"
        /\ features' = indices
        /\ ret' = subset_distribution(x, indices)
        /\ calls' = Append(calls, Invocation("subset", <<indices>>))
        /\ UNCHANGED <<cov, patchwork_functions, fit_models, x, y, value,
                       groups, block_lhs, block_rhs>>

\* set_subset(from, indices, &to): x is from, y is to before the call and
\* ret holds to after it. to is a distribution of n entries, with or without
\* a covariance, and indices names one position of to per entry of from.
CallSetSubset ==
    /\ pc = "distribution"
    /\ \E n \in 0..(MaxMean + 1), with_covariance \in BOOLEAN :
        \E indices \in { s \in DistinctIndices(n) :
                            Len(s) = Len(x.mean) } :
            /\ pc' = "set_subset"
            /\ features' = indices
            /\ y' = IF with_covariance
                    THEN Distribution2(DenseVector(n), DenseMatrix(n, n))
                    ELSE Distribution1(DenseVector(n))
            /\ ret' = set_subset_distribution(x, indices,
                          IF with_covariance
                          THEN Distribution2(DenseVector(n),
                                             DenseMatrix(n, n))
                          ELSE Distribution1(DenseVector(n)))
            /\ calls' = Append(calls, Invocation("set_subset", <<indices>>))
            /\ UNCHANGED <<cov, patchwork_functions, fit_models, x, value,
                           groups, block_lhs, block_rhs>>

NextDistribution == Construct \/ CallSize \/ CallSubset \/ CallSetSubset

SpecDistribution == InitDistribution /\ [][NextDistribution]_vars

----------------------------------------------------------------------------
(* SpecFolds: cross validation folds. Indices are the program's, from 0. *)

\* FoldName is a std::string, ordered as std::map orders strings: by
\* characters, a proper prefix first. A name is the sequence of its digits.
FoldNames == {<<1>>, <<1, 0>>, <<2>>}

StringLess(a, b) ==
    \E k \in 1..(Len(b)) :
        /\ \A t \in 1..(k - 1) : t <= Len(a) /\ a[t] = b[t]
        /\ k - 1 <= Len(a)
        /\ k > Len(a) \/ a[k] < b[k]

RECURSIVE SortedNames(_)
\* The keys of a std::map<FoldName, ...> in iteration order.
SortedNames(S) ==
    IF S = {} THEN <<>>
    ELSE LET least == CHOOSE a \in S : \A b \in S \ {a} : StringLess(a, b)
         IN  <<least>> \o SortedNames(S \ {least})

IsSorted(s) == \A i \in 1..(Len(s) - 1) : s[i] <= s[i + 1]

RECURSIVE SetDifferenceLoop(_, _, _, _, _)
\* The loop of std::set_difference over [first1, last1) and [first2, last2).
SetDifferenceLoop(xs, ys, i, j, out) ==
    IF i > Len(xs) THEN out
    ELSE IF j > Len(ys)
    THEN SetDifferenceLoop(xs, ys, i + 1, j, Append(out, xs[i]))
    ELSE IF xs[i] < ys[j]
    THEN SetDifferenceLoop(xs, ys, i + 1, j, Append(out, xs[i]))
    ELSE IF ys[j] < xs[i]
    THEN SetDifferenceLoop(xs, ys, i, j + 1, out)
    ELSE SetDifferenceLoop(xs, ys, i + 1, j + 1, out)

\* vector_set_difference(x, y). std::set_difference requires both ranges to
\* be sorted; on an unsorted range its behaviour is undefined: the loop may
\* run as written or a checking library may stop the program.
vector_set_difference(xs, ys) ==
    IF IsSorted(xs) /\ IsSorted(ys)
    THEN {[status |-> "ok", value |-> SetDifferenceLoop(xs, ys, 1, 1, <<>>)]}
    ELSE {[status |-> "ok", value |-> SetDifferenceLoop(xs, ys, 1, 1, <<>>)],
          [status |-> "aborted", value |-> <<>>]}

\* std::iota(all_indices.begin(), all_indices.end(), 0) on n entries.
Iota(n) == [i \in 1..n |-> i - 1]

\* indices_complement(indices, n): the possible outcomes.
indices_complement(indices, n) == vector_set_difference(Iota(n), indices)

\* subset(indices, v) of a std::vector.
subset(indices, v) == [i \in 1..Len(indices) |-> v[indices[i] + 1]]

RECURSIVE IndexerLoop(_, _, _, _)
\* The loop of leave_one_group_out_indexer from feature i on.
IndexerLoop(fs, get_group_name, i, indexer) ==
    IF i > Len(fs) THEN indexer
    ELSE LET k == get_group_name[fs[i]]
             indices == IF k \notin DOMAIN indexer THEN <<>> ELSE indexer[k]
         IN  IndexerLoop(fs, get_group_name, i + 1,
                 [name \in DOMAIN indexer \cup {k} |->
                     IF name = k THEN Append(indices, i - 1)
                     ELSE indexer[name]])

IndexerFirstOnly(fs, get_group_name) ==
    LET all == IndexerLoop(fs, get_group_name, 1, <<>>)
    IN  [name \in DOMAIN all |-> <<all[name][1]>>]

\* leave_one_group_out_indexer(features, get_group_name)
leave_one_group_out_indexer(fs, get_group_name) ==
    IndexerLoop(fs, get_group_name, 1, <<>>)

\* The fold of one entry of the FoldIndexer, for one outcome of
\* indices_complement.
OneFold(fs, targets, name_, test_indices_, complement) ==
    LET train_indices == complement.value
        train_features == subset(train_indices, fs)
        train_targets == subset(train_indices, targets)
        test_features == subset(test_indices_, fs)
        test_targets == subset(test_indices_, targets)
    IN  [status |-> IF complement.status # "ok" THEN complement.status
                    ELSE IF Len(test_targets) + Len(train_targets) # Len(fs)
                    THEN "assert_failed" ELSE "ok",
         name |-> name_,
         test_indices |-> test_indices_,
         train_indices |-> train_indices,
         train_features |-> train_features,
         train_targets |-> train_targets,
         test_features |-> test_features,
         test_targets |-> test_targets]

\* folds_from_fold_indexer(dataset, groups): one fold per entry, in the order
\* of the map. The test indices of an indexer made by
\* leave_one_group_out_indexer are ascending, so indices_complement has one
\* outcome.
folds_from_fold_indexer(fs, targets, indexer) ==
    LET names == SortedNames(DOMAIN indexer)
    IN  [t \in 1..Len(names) |->
            OneFold(fs, targets, names[t], indexer[names[t]],
                    CHOOSE c \in indices_complement(indexer[names[t]],
                                                    Len(fs)) :
                        c.status = "ok")]

\* leave_one_group_out(dataset, get_group_name)
leave_one_group_out(fs, targets, get_group_name) ==
    folds_from_fold_indexer(fs, targets,
        leave_one_group_out_indexer(fs, get_group_name))

\* Lists of distinct indices of 0..n-1, in any order.
IndexLists(n) ==
    { s \in SeqsUpTo(0..(n - 1), n) :
          \A i \in 1..Len(s) : \A j \in 1..Len(s) : i # j => s[i] # s[j] }

GetGroupNames == [Raw -> FoldNames]

InitFolds ==
    /\ pc = "start"
    /\ cov \in { c \in CovFuncs : c[<<1, 1>>] = 1 /\ c[<<1, 2>>] = 0 }
    /\ patchwork_functions \in
           { [grouper |-> g, boundary |-> <<>>, nearest_group |-> "none"] :
                 g \in GetGroupNames }
    /\ fit_models = NoFit
    /\ x = NoFeature
    /\ y = NoFeature
    /\ value = 0
    /\ groups = <<>>
    /\ features = <<>>
    /\ block_lhs = <<>>
    /\ block_rhs = <<>>
    /\ ret = NoRet
    /\ calls = <<>>

\* indices_complement(indices, n): value holds n, groups the indices.
CallIndicesComplement ==
    /\ pc = "start"
    /\ \E n \in 0..MaxIndex :
        \E indices \in IndexLists(n) :
            \E outcome \in indices_complement(indices, n) :
                /\ pc' = "indices_complement"
                /\ value' = n
                /\ groups' = indices
                /\ ret' = outcome
                /\ calls' = <<Invocation("indices_complement",
                                         <<indices, n>>)>>
                /\ UNCHANGED <<cov, patchwork_functions, fit_models, x, y,
                               features, block_lhs, block_rhs>>

\* leave_one_group_out(dataset, get_group_name): features holds the
\* dataset's features and the grouper is get_group_name.
CallLeaveOneGroupOut ==
    /\ pc = "start"
    /\ \E fs \in SeqsUpTo(Raw, MaxData) :
        /\ pc' = "leave_one_group_out"
        /\ features' = fs
        /\ value' = Len(fs)
        /\ ret' = [status |-> "ok",
                   value |-> leave_one_group_out(fs,
                                 [i \in 1..Len(fs) |-> i],
                                 patchwork_functions.grouper)]
        /\ calls' = <<Invocation("leave_one_group_out", <<fs>>)>>
        /\ UNCHANGED <<cov, patchwork_functions, fit_models, x, y, groups,
                       block_lhs, block_rhs>>

NextFolds == CallIndicesComplement \/ CallLeaveOneGroupOut

SpecFolds == InitFolds /\ [][NextFolds]_vars

----------------------------------------------------------------------------
(* Claims about the covariance dispatch (checked under SpecCaller) *)

\* A well-formed boundary feature names two different groups.
ValidBoundary(b) == b.kind = "boundary" /\ b.lhs # b.rhs

\* Iverson bracket.
Ind(b) == IF b THEN 1 ELSE 0

\* The base covariance of the two arguments' raw features.
BaseCov == cov[<<x.feature, y.feature>>]

\* C1: boundary antisymmetry - swapping lhs and rhs of a boundary feature
\* negates its covariance with any tagged argument (a group feature or a
\* boundary feature between two different groups).
C1_BoundaryAntisymmetry ==
    (pc = "called" /\ ValidBoundary(x) /\ (y.kind = "group" \/ ValidBoundary(y)))
        => PatchworkCaller(cov, BoundaryFeature(x.rhs, x.lhs, x.feature), y)
               = -value

\* C2: the dispatch is symmetric - evaluating with the arguments swapped
\* returns the same value.
C2_Symmetric == pc = "called" => PatchworkCaller(cov, y, x) = value

C2_Witness ==
    /\ pc = "called"
    /\ ValidBoundary(x)
    /\ y.kind = "group"
    /\ y.key = x.rhs
    /\ value < 0

\* C3: every cell of the dispatch table - group/group, group/boundary (in
\* either argument order) and the four boundary/boundary rules - over
\* boundary features whose lhs and rhs differ.
C3_DispatchTable ==
    pc = "called" =>
        /\ (x.kind = "group" /\ y.kind = "group")
              => value = (IF x.key = y.key THEN BaseCov ELSE 0)
        /\ (x.kind = "group" /\ ValidBoundary(y))
              => value = (IF x.key = y.lhs THEN BaseCov
                          ELSE IF x.key = y.rhs THEN -BaseCov ELSE 0)
        /\ (ValidBoundary(x) /\ y.kind = "group")
              => value = (IF y.key = x.lhs THEN BaseCov
                          ELSE IF y.key = x.rhs THEN -BaseCov ELSE 0)
        /\ (ValidBoundary(x) /\ ValidBoundary(y))
              => /\ (x.lhs = y.lhs /\ x.rhs = y.rhs) => value = 2 * BaseCov
                 /\ ((x.lhs = y.lhs) # (x.rhs = y.rhs)) => value = BaseCov
                 /\ (\/ x.lhs = y.rhs /\ x.rhs # y.lhs
                     \/ x.rhs = y.lhs /\ x.lhs # y.rhs) => value = -BaseCov
                 /\ ({x.lhs, x.rhs} \cap {y.lhs, y.rhs} = {}) => value = 0

C3_Witness ==
    /\ pc = "called"
    /\ ValidBoundary(x)
    /\ ValidBoundary(y)
    /\ {x.lhs, x.rhs} \cap {y.lhs, y.rhs} = {}
    /\ BaseCov # 0
    /\ value = 0

\* C4: the boundary/boundary covariance is the bilinear expansion of
\* cov(f_xl - f_xr, f_yl - f_yr) for every key configuration.
C4_BilinearExpansion ==
    (pc = "called" /\ ValidBoundary(x) /\ ValidBoundary(y))
        => value = (Ind(x.lhs = y.lhs) - Ind(x.lhs = y.rhs)
                    - Ind(x.rhs = y.lhs) + Ind(x.rhs = y.rhs)) * BaseCov

\* C5: two raw features are evaluated by the plain base covariance.
C5_RawFallback ==
    (pc = "called" /\ x.kind = "raw" /\ y.kind = "raw") => value = BaseCov

C5_Witness ==
    /\ pc = "called"
    /\ x.kind = "raw"
    /\ y.kind = "raw"
    /\ x.feature # y.feature
    /\ value > 0

----------------------------------------------------------------------------
(* Claims about boundary feature construction (checked under SpecBoundary) *)

\* C6: every boundary feature produced by as_boundary_features or
\* build_boundary_features has lhs # rhs.
C6_BoundaryKeysDiffer ==
    pc \in {"as_boundary_features", "build_boundary_features"}
        => \A i \in 1..Len(ret.boundary_features) :
               ret.boundary_features[i].lhs # ret.boundary_features[i].rhs

\* Index pairs (i, j) with i < j of a list of n groups, and their
\* lexicographic order.
IndexPairs(n) == { p \in (1..n) \X (1..n) : p[1] < p[2] }

LexLess(p, q) == p[1] < q[1] \/ (p[1] = q[1] /\ p[2] < q[2])

Before(p, n) == { q \in IndexPairs(n) : LexLess(q, p) }

\* What the boundary function returns for the groups at index pair p.
Returned(p) == patchwork_functions.boundary[<<groups[p[1]], groups[p[2]]>>]

RECURSIVE SumLen(_)
\* Number of raw features returned for the index pairs in P.
SumLen(P) ==
    IF P = {} THEN 0
    ELSE LET p == CHOOSE q \in P : TRUE
         IN  Len(Returned(p)) + SumLen(P \ {p})

\* C7: the boundary function is invoked exactly once per index pair i < j, in
\* lexicographic order, and the output is the concatenation in that order of
\* one BoundaryFeature(groups[i], groups[j], f) per returned raw feature;
\* empty pairs contribute nothing and the call succeeds when any pair
\* contributes.
C7_BuildBoundaryFeatures ==
    pc = "build_boundary_features" =>
        LET n == Len(groups)
            P == IndexPairs(n)
        IN  /\ Len(calls) = Cardinality(P)
            /\ \A p \in P :
                   /\ calls[Cardinality(Before(p, n)) + 1].fn = "boundary"
                   /\ calls[Cardinality(Before(p, n)) + 1].args
                          = <<groups[p[1]], groups[p[2]]>>
            /\ SumLen(P) > 0 =>
                   /\ ret.status = "ok"
                   /\ Len(ret.boundary_features) = SumLen(P)
                   /\ \A p \in P : \A t \in 1..Len(Returned(p)) :
                          ret.boundary_features[SumLen(Before(p, n)) + t]
                              = BoundaryFeature(groups[p[1]], groups[p[2]],
                                                Returned(p)[t])

C7_Witness ==
    /\ pc = "build_boundary_features"
    /\ groups = <<3, 1, 2>>
    /\ Returned(<<1, 2>>) = <<>>
    /\ Returned(<<1, 3>>) = <<2, 1>>
    /\ Returned(<<2, 3>>) = <<2, 1>>
    /\ ret.status = "ok"
    /\ Len(ret.boundary_features) = 4

Elements(s) == { s[i] : i \in 1..Len(s) }

\* The keys of the list are pairwise distinct.
PairwiseDistinct(gs) ==
    \A i \in 1..Len(gs) : \A j \in 1..Len(gs) : i # j => gs[i] # gs[j]

\* The position of a key in the list of groups.
PositionOf(key) == CHOOSE i \in 1..Len(groups) : groups[i] = key

Reversed(a, b) == a.lhs = b.rhs /\ a.rhs = b.lhs

\* The pair (a, b) is covered by a rule of the boundary-boundary table: same
\* pair, one shared side, crossed side, or no group in common.
CoveredByTable(a, b) ==
    \/ a.lhs = b.lhs /\ a.rhs = b.rhs
    \/ a.lhs = b.lhs /\ a.rhs # b.rhs
    \/ a.lhs # b.lhs /\ a.rhs = b.rhs
    \/ a.lhs = b.rhs /\ a.rhs # b.lhs
    \/ a.lhs # b.rhs /\ a.rhs = b.lhs
    \/ {a.lhs, a.rhs} \cap {b.lhs, b.rhs} = {}

\* C27: for a list of pairwise distinct group keys, every feature returned by
\* build_boundary_features has its lhs at a strictly smaller position of the
\* list than its rhs, no two returned features have reversed key pairs, and
\* every pair of returned features is covered by a rule of the table.
C27_NoReversedPairs ==
    pc = "build_boundary_features" /\ PairwiseDistinct(groups)
        => /\ \A i \in 1..Len(ret.boundary_features) :
                  /\ ret.boundary_features[i].lhs \in Elements(groups)
                  /\ ret.boundary_features[i].rhs \in Elements(groups)
                  /\ PositionOf(ret.boundary_features[i].lhs)
                         < PositionOf(ret.boundary_features[i].rhs)
           /\ \A i \in 1..Len(ret.boundary_features) :
                  \A j \in 1..Len(ret.boundary_features) :
                      /\ ~Reversed(ret.boundary_features[i],
                                   ret.boundary_features[j])
                      /\ CoveredByTable(ret.boundary_features[i],
                                        ret.boundary_features[j])

\* Three distinct keys out of ascending order, all pairs linked: the
\* features of (3, 1) and (1, 2) share group 1 on crossed sides.
C27_Witness ==
    /\ pc = "build_boundary_features"
    /\ groups = <<3, 1, 2>>
    /\ ret.status = "ok"
    /\ \E i \in 1..Len(ret.boundary_features) :
           \E j \in 1..Len(ret.boundary_features) :
               /\ ret.boundary_features[i].lhs = 3
               /\ ret.boundary_features[i].rhs = 1
               /\ ret.boundary_features[j].lhs = 1
               /\ ret.boundary_features[j].rhs = 2

----------------------------------------------------------------------------
(* Claims about predict (checked under Spec) *)

\* The boundary function returns nothing for every pair of fitted groups.
AllBoundariesEmpty ==
    \A a \in DOMAIN fit_models : \A b \in DOMAIN fit_models :
        a # b => patchwork_functions.boundary[<<a, b>>] = <<>>

C9_EmptyGroupSet ==
    /\ (pc = "predicted" /\ Size(fit_models) = 0)
           => /\ ret.status = "assert_failed"
              /\ ret.computed = <<>>
              /\ ret.dist.size = 0
    /\ (pc = "block_accumulate" /\ Size(block_lhs) = 0 /\ Size(block_rhs) = 0)
           => ret.status = "assert_failed"

C9_Witness ==
    /\ pc = "predicted"
    /\ Size(fit_models) = 0
    /\ Len(features) > 0
    /\ ret.status = "assert_failed"

\* C10: with exactly one group predict returns that group's own joint
\* prediction for the query features, in the query order, and invokes
\* neither the boundary function, the grouper nor nearest_group.
C10_SingleGroup ==
    (pc = "predicted" /\ Size(fit_models) = 1)
        => /\ ret.status = "ok"
           /\ ret.computed = <<>>
           /\ \A key \in DOMAIN fit_models :
                  /\ ret.dist.by = fit_models[key]
                  /\ ret.dist.at = features
           /\ \A i \in 1..Len(calls) :
                  calls[i].fn \notin {"boundary", "grouper", "nearest_group"}

C10_Witness ==
    /\ pc = "predicted"
    /\ Size(fit_models) = 1
    /\ Len(features) = 2
    /\ features[1] > features[2]
    /\ Len(calls) = 1
    /\ ret.status = "ok"

----------------------------------------------------------------------------
(* Claims about fit (checked under Spec) *)

\* The places (key, position) of the per-group training sets that hold the
\* target of input pair i.
PlacesOf(i) ==
    { p \in (DOMAIN fit_models) \X (1..Len(features)) :
          /\ p[2] <= Len(fit_models[p[1]].targets)
          /\ fit_models[p[1]].targets[p[2]] = i }

\* C11: partition completeness of fit - a fit model exists for exactly the
\* keys the grouper assigns to some input feature, every input pair sits at
\* exactly one place, in the model keyed by grouper(feature) and next to its
\* own feature, and the training sets hold nothing else.
C11_PartitionComplete ==
    pc = "fit" =>
        /\ DOMAIN fit_models
               = { patchwork_functions.grouper[features[i]] :
                       i \in 1..Len(features) }
        /\ \A key \in DOMAIN fit_models :
               /\ Len(fit_models[key].train_features)
                      = Len(fit_models[key].targets)
               /\ \A j \in 1..Len(fit_models[key].targets) :
                      fit_models[key].targets[j] \in 1..Len(features)
        /\ \A i \in 1..Len(features) :
               /\ Cardinality(PlacesOf(i)) = 1
               /\ \A p \in PlacesOf(i) :
                      /\ p[1] = patchwork_functions.grouper[features[i]]
                      /\ fit_models[p[1]].train_features[p[2]] = features[i]

C11_Witness ==
    /\ pc = "fit"
    /\ Len(features) = 2
    /\ features[1] > features[2]
    /\ Size(fit_models) = 1
    /\ \A key \in DOMAIN fit_models :
           fit_models[key].train_features = features

\* The invocations of the boundary function made by the last operation.
BoundaryInvocations == SelectSeq(calls, LAMBDA c : c.fn = "boundary")

RECURSIVE PointCount(_, _, _)
\* Number of boundary points b returns for the index pairs P of keys.
PointCount(b, keys, P) ==
    IF P = {} THEN 0
    ELSE LET p == CHOOSE q \in P : TRUE
         IN  Len(b[<<keys[p[1]], keys[p[2]]>>]) + PointCount(b, keys, P \ {p})

\* A fit invokes neither the boundary function nor nearest_group and stores
\* the training data only; a multi-group predict invokes the boundary function
\* of its own model instance once per pair of fitted keys and uses exactly the
\* boundary features that function returns.
C12_LazyBoundaries ==
    /\ pc = "fit" =>
           /\ \A i \in 1..Len(calls) :
                  calls[i].fn \notin {"boundary", "nearest_group"}
           /\ \A key \in DOMAIN fit_models :
                  DOMAIN fit_models[key] = {"train_features", "targets"}
    /\ pc = "from_fit_models" => calls = <<>>
    /\ (pc = "predicted" /\ Size(fit_models) # 1) =>
           LET keys == GroupedKeys(fit_models)
               n == Len(keys)
               P == IndexPairs(n)
               b == patchwork_functions.boundary
           IN  /\ Len(BoundaryInvocations) = Cardinality(P)
               /\ \A p \in P :
                      BoundaryInvocations[Cardinality(Before(p, n)) + 1].args
                          = <<keys[p[1]], keys[p[2]]>>
               /\ ret.status = "ok" =>
                      /\ Len(ret.boundary_features) = PointCount(b, keys, P)
                      /\ \A i \in 1..Len(ret.boundary_features) :
                             LET f == ret.boundary_features[i]
                             IN  \E t \in 1..Len(b[<<f.lhs, f.rhs>>]) :
                                     b[<<f.lhs, f.rhs>>][t] = f.feature

\* No step after the fit changes the fit models: predicting and handing the
\* fit models to another model instance never refits.
C12_NoRefit ==
    pc # "constructed" => fit_models' = fit_models

\* C12: no boundary computation happens at fit time - the boundary function
\* and nearest_group are never invoked by a fit, the Fit state holds no
\* boundary-derived data, every multi-group predict invokes the boundary
\* function afresh, and predict calls with different boundary functions on
\* the same fit models each use their own boundary features without a refit.
C12_NoBoundaryAtFit == [](C12_LazyBoundaries) /\ [][C12_NoRefit]_vars

C12_Witness ==
    /\ pc = "predicted"
    /\ Size(fit_models) >= 2
    /\ patchwork_functions.boundary # InitialBoundaryFn
    /\ ret.status = "ok"
    /\ Len(ret.boundary_features) = 2

----------------------------------------------------------------------------
(* Claims about the predicted distribution (checked under Spec) *)

\* A predict call that went past the single-group shortcut and returned.
MultiGroupPredicted ==
    pc = "predicted" /\ Size(fit_models) >= 2 /\ ret.status = "ok"

\* Number of positions of the sequence s that hold e.
Count(s, e) == Cardinality({ i \in 1..Len(s) : s[i] = e })

\* The features of a sequence of group features.
FeaturesOf(gfs) == [i \in 1..Len(gfs) |-> gfs[i].feature]

\* C13: query routing - every query feature is routed exactly once, to
\* nearest_group(fitted keys, grouper(f)); that key always has a fit model
\* and is the query's own group whenever that group was fitted.
C13_QueryRouting ==
    MultiGroupPredicted =>
        LET keys == GroupedKeys(fit_models)
            order == ret.dist.order
        IN  /\ \A f \in Raw : Count(FeaturesOf(order), f) = Count(features, f)
            /\ \A i \in 1..Len(order) :
                   LET own == patchwork_functions.grouper[order[i].feature]
                   IN  /\ order[i].kind = "group"
                       /\ order[i].key = nearest_group(keys, own)
                       /\ order[i].key \in DOMAIN fit_models
                       /\ own \in DOMAIN fit_models => order[i].key = own
            /\ \A i \in 1..Len(calls) :
                   calls[i].fn = "nearest_group" => calls[i].args[1] = keys

C13_Witness ==
    /\ MultiGroupPredicted
    /\ Len(features) = 2
    /\ patchwork_functions.grouper[features[1]] \notin DOMAIN fit_models
    /\ patchwork_functions.grouper[features[2]] \in DOMAIN fit_models
    /\ \E i \in 1..Len(calls) : calls[i].fn = "nearest_group"

\* The query features routed to key, in query order.
RoutedTo(key) ==
    SelectSeq(features,
              LAMBDA f : predict_grouper(patchwork_functions,
                                         GroupedKeys(fit_models), f) = key)

\* C14: output shape and order - the distribution has one entry per query
\* feature; its entries are the queries concatenated group by group in
\* ascending key order, each group in the original relative order.
C14_OutputOrder ==
    MultiGroupPredicted =>
        LET order == ret.dist.order
        IN  /\ ret.dist.size = Len(features)
            /\ Len(order) = Len(features)
            /\ \A i \in 1..Len(order) : \A j \in 1..Len(order) :
                   i < j => order[i].key <= order[j].key
            /\ \A key \in DOMAIN fit_models :
                   FeaturesOf(SelectSeq(order, LAMBDA g : g.key = key))
                       = RoutedTo(key)

C14_Witness ==
    /\ MultiGroupPredicted
    /\ Len(features) = 2
    /\ FeaturesOf(ret.dist.order) = Reverse(features)
    /\ ret.dist.order[1].key < ret.dist.order[2].key

\* The result of the last predict call is the one a first call with the same
\* Fit state, covariance function, grouping bundle and query would return.
C17_SelfContained ==
    pc = "predicted"
        => ret = predict_impl(cov, patchwork_functions, fit_models,
                              features).ret

C17_FitUnchanged ==
    pc' = "predicted"
        => /\ fit_models' = fit_models
           /\ cov' = cov
           /\ patchwork_functions' = patchwork_functions

Singular(m) == m.den = 0 \/ Det(m.num) = 0

\* C15: a numerical failure in a factorization or solve surfaces as an
\* error: a prediction that returns a distribution computed it from
\* factorizations of C_bb and S_bb that could be solved.
C15_NumericalFailureReported ==
    MultiGroupPredicted /\ ret.dist # NoDist
        => ~Singular(Matrix(ret.C_bb)) /\ ~Singular(ret.S_bb)

----------------------------------------------------------------------------
(* Claims about the block operations (checked under Spec) *)

RECURSIVE KeySum(_, _)
\* The sum of term[key] over the keys of S.
KeySum(S, term) ==
    IF S = {} THEN 0
    ELSE LET key == CHOOSE k \in S : TRUE
         IN  term[key] + KeySum(S \ {key}, term)

\* Entry (i, j) of transpose(a) * b and of a * b, for integer matrices.
InnerEntry(a, b, i, j) == a[1][i] * b[1][j] + a[2][i] * b[2][j]
ProductEntry(a, b, i, j) == a[i][1] * b[1][j] + a[i][2] * b[2][j]

SameKeys == DOMAIN block_lhs = DOMAIN block_rhs /\ DOMAIN block_lhs # {}

\* C18: block_accumulate on operands with identical non-empty key sets
\* applies f exactly once per key, in the canonical (ascending) order of
\* lhs.keys(), and returns the sum over all keys of f(lhs[key], rhs[key]);
\* for block_inner_product f(x, y) = transpose(x) * y, for block_product
\* f(x, y) = x * y.
C18_AccumulateSum ==
    pc \in {"block_accumulate", "block_product"} /\ SameKeys
        => /\ ret.status = "ok"
           /\ ret.applied = SortedSeq(DOMAIN block_lhs)
           /\ ret.value.den = 1
           /\ \A i \in 1..2, j \in 1..2 :
                  ret.value.num[i][j] =
                      KeySum(DOMAIN block_lhs,
                             [key \in DOMAIN block_lhs |->
                                 IF pc = "block_accumulate"
                                 THEN InnerEntry(block_lhs[key].num,
                                                 block_rhs[key].num, i, j)
                                 ELSE ProductEntry(block_lhs[key].num,
                                                   block_rhs[key].num, i, j)])

\* An inner product over three keys whose value differs from the product's.
C18_Witness ==
    /\ pc = "block_accumulate"
    /\ SameKeys
    /\ Size(block_lhs) = 3
    /\ ret.status = "ok"
    /\ Len(ret.applied) = 3
    /\ ret.value # block_product(block_lhs, block_rhs).value

\* C19: every block primitive (block_accumulate through block_product and
\* block_inner_product, and block_solve) fails and returns no result when the
\* key sets of its two operands differ, in either direction.
C19_IdenticalKeySets ==
    ( /\ pc \in {"block_accumulate", "block_product", "block_solve"}
      /\ DOMAIN block_lhs # DOMAIN block_rhs )
        => ret.status # "ok"

\* a * sol = b in exact arithmetic.
Solves(a, sol, b) ==
    /\ sol.den # 0
    /\ Scale(MatMul(a.num, sol.num), b.den) = Scale(b.num, a.den * sol.den)

\* The operand restricted to one key.
Only(grouped, key) == [k \in {key} |-> grouped[key]]

\* C20: block_solve(lhs, rhs) returns a Grouped with the keys of rhs whose
\* block at each key is the solve of lhs[key] against rhs[key] and is the
\* block a call on that key alone returns (no cross-group coupling).
C20_BlockSolvePerKey ==
    pc = "block_solve" /\ DOMAIN block_rhs \subseteq DOMAIN block_lhs
        => /\ ret.status = "ok"
           /\ DOMAIN ret.value = DOMAIN block_rhs
           /\ \A key \in DOMAIN block_rhs :
                  /\ Solves(block_lhs[key].factorized, ret.value[key],
                            block_rhs[key])
                  /\ ret.value[key] =
                         block_solve(Only(block_lhs, key),
                                     Only(block_rhs, key)).value[key]

\* A solve over three keys, each with its own factorization.
C20_Witness ==
    /\ pc = "block_solve"
    /\ ret.status = "ok"
    /\ Size(block_rhs) = 3
    /\ DOMAIN ret.value = DOMAIN block_lhs
    /\ \A a \in DOMAIN ret.value : \A b \in DOMAIN ret.value :
           a # b => ret.value[a] # ret.value[b]

\* The blocks of a Grouped stacked vertically in key order.
Stack(grouped) ==
    Concat([key \in DOMAIN grouped |-> grouped[key].num],
           GroupedKeys(grouped), Size(grouped))

\* The statement of C21 as the specification words it: for same key sets,
\* block_product(A, block_solve(A, B)) == B, B taken as its stacked blocks.
C21_SolveProductIsB ==
    pc = "block_solve_product" /\ SameKeys
        => /\ ret.status = "ok"
           /\ ret.value.den # 0
           /\ ret.value.num = Scale(Stack(block_rhs), ret.value.den)

\* C21 (amended): for a Grouped A of invertible blocks and a Grouped B with
\* the same non-empty key set, block_product(A, block_solve(A, B)) is the
\* sum over the keys of B[key]; it is B itself when there is one key.
C21_SolveProductIsSum ==
    pc = "block_solve_product" /\ SameKeys
        => /\ ret.status = "ok"
           /\ ret.value.den # 0
           /\ \A i \in 1..2, j \in 1..2 :
                  ret.value.num[i][j] =
                      ret.value.den
                          * KeySum(DOMAIN block_rhs,
                                   [key \in DOMAIN block_rhs |->
                                       block_rhs[key].num[i][j]])
           /\ Size(block_rhs) = 1
                  => ret.value.num = Scale(Stack(block_rhs), ret.value.den)

\* The product over three keys: the sum of three blocks, not their stack.
C21_Witness ==
    /\ pc = "block_solve_product"
    /\ SameKeys
    /\ Size(block_rhs) = 3
    /\ ret.status = "ok"
    /\ Len(ret.applied) = 3
    /\ Rows(ret.value.num) = 2
    /\ Rows(Stack(block_rhs)) = 6

----------------------------------------------------------------------------
(* Claims about the configuration (checked under SpecConfig) *)

\* C16: a bundle that lacks grouper, boundary or nearest_group, or whose
\* boundary does not return a vector or whose nearest_group does not return
\* the GroupKey type, is rejected on every path by which the model is used:
\* no fit or predict call is compiled with it.
C16_ConfigurationValidated ==
    ( /\ pc \in {"fit", "predict"}
      /\ ~patchwork_functions_are_valid(patchwork_functions) )
        => ret.status \in {"static_assert_failed", "compile_error"}

----------------------------------------------------------------------------
(* Claims about distributions (checked under SpecDistribution) *)

CovariancePresent(dist) == dist.covariance.rows * dist.covariance.cols > 0

\* A covariance that is present is square and as long as the mean.
WellFormed(dist) ==
    CovariancePresent(dist)
        => /\ dist.covariance.rows = dist.covariance.cols
           /\ dist.covariance.rows = Len(dist.mean)

\* C22: every Distribution that exists, built by a constructor, by subset or
\* by set_subset, is well formed; subset preserves whether a covariance is
\* present and yields a mean and a covariance of as many entries as indices.
C22_DistributionInvariant ==
    /\ pc \in {"distribution", "size", "subset", "set_subset"}
           => WellFormed(x)
    /\ pc \in {"subset", "set_subset"} /\ ret.status = "ok"
           => WellFormed(ret.value)
    /\ pc = "subset" /\ ret.status = "ok"
           => /\ CovariancePresent(ret.value) = CovariancePresent(x)
              /\ Len(ret.value.mean) = Len(features)
              /\ CovariancePresent(x)
                     => ret.value.covariance.rows = Len(features)

----------------------------------------------------------------------------
(* Claims about cross validation folds (checked under SpecFolds) *)

\* Every number of 0..n-1 occurs exactly once in the two lists together.
Partition(a, b, n) ==
    /\ Elements(a) \cap Elements(b) = {}
    /\ Elements(a) \cup Elements(b) = 0..(n - 1)
    /\ Len(a) + Len(b) = n

\* C23: for every list of distinct indices of 0..n-1, in any order, indices
\* and indices_complement(indices, n) partition 0..n-1; every fold of
\* folds_from_fold_indexer has test and train indices that partition the
\* dataset.
C23_IndicesComplement ==
    /\ pc = "indices_complement"
           => ret.status = "ok" /\ Partition(groups, ret.value, value)
    /\ pc = "leave_one_group_out"
           => \A t \in 1..Len(ret.value) :
                  /\ ret.value[t].status = "ok"
                  /\ Partition(ret.value[t].test_indices,
                               ret.value[t].train_indices, value)

\* The indices of the features that get_group_name gives the name.
IndicesOfName(name_) ==
    { i \in 0..(Len(features) - 1) :
          patchwork_functions.grouper[features[i + 1]] = name_ }

----------------------------------------------------------------------------
(* Claims about the generalized solver (checked under SpecSolver) *)

\* Two matrices in exact arithmetic are the same matrix.
SameMatrix(a, b) ==
    /\ a.den # 0
    /\ b.den # 0
    /\ Scale(a.num, b.den) = Scale(b.num, a.den)

\* The targets a fit model was fitted on, as a column.
TargetsOf(fit_model) ==
    Matrix([i \in 1..Len(fit_model.targets) |-> <<fit_model.targets[i]>>])

\* C25: the right-hand side passed to solver for the information vector is,
\* for every group key, the vector of training targets the group's model was
\* fitted on.
C25_InformationFromTargets ==
    pc = "information" =>
        \A key \in DOMAIN fit_models :
            SameMatrix(block_rhs[key], TargetsOf(fit_models[key]))

Invertible(m) == m.den # 0 /\ Rows(m.num) = Cols(m.num) /\ Det(m.num) # 0

\* The matrices of the current model.
CurrentMatrices == {PredictMatrices(cov, patchwork_functions, fit_models)}

\* A = C_dd, B = C_bb and S_bb of the current model are invertible.
SolverDefined ==
    \A mats \in CurrentMatrices :
        /\ \A key \in DOMAIN fit_models :
               Invertible(mats.C_dd[key].factorized)
        /\ Invertible(mats.C_bb)
        /\ Invertible(mats.S_bb)

\* Block key of (A - C B^-1 C^T) * sol is block key of rhs, for Grouped sol
\* and rhs.
WoodburyBlock(mats, sol, rhs, key) ==
    \A Ct_sol \in {Reduced(block_inner_product(mats.C_db, sol).value)} :
        \A Bi_Ct_sol \in {Reduced(LdltSolve(Ldlt(mats.C_bb), Ct_sol))} :
            \A A_sol \in {Reduced(Product(mats.C_dd[key].factorized,
                                          sol[key]))} :
                \A C_Bi_Ct_sol \in {Reduced(Product(mats.C_db[key],
                                                    Bi_Ct_sol))} :
                    \A product \in {Reduced(Difference(A_sol,
                                                       C_Bi_Ct_sol))} :
                        SameMatrix(product, rhs[key])

\* C26: with A the block-diagonal C_dd, C the stacked C_db, B = C_bb and
\* S_bb = B - C^T A^-1 C all invertible, solver(rhs) has the keys and block
\* shapes of rhs and is (A - C B^-1 C^T)^-1 rhs: block by block,
\* (A - C B^-1 C^T) * solver(rhs) = rhs.
C26_SchurWoodbury ==
    pc \in {"information", "solver"} /\ SolverDefined
        => /\ ret.status = "ok"
           /\ DOMAIN ret.value = DOMAIN block_rhs
           /\ \A key \in DOMAIN block_rhs :
                  /\ Rows(ret.value[key].num) = Rows(block_rhs[key].num)
                  /\ Cols(ret.value[key].num) = Cols(block_rhs[key].num)
                  /\ \A mats \in CurrentMatrices :
                         WoodburyBlock(mats, ret.value, block_rhs, key)

\* A solve on two groups, one of two training features, in which the
\* boundary couples the groups: the block of the group that the right-hand
\* side leaves at zero is not zero in the result.
C26_Witness ==
    /\ pc = "solver"
    /\ SolverDefined
    /\ Size(fit_models) = 2
    /\ \E key \in DOMAIN fit_models :
           Len(fit_models[key].train_features) = 2
    /\ \E key \in DOMAIN block_rhs :
           /\ \A i \in 1..Rows(block_rhs[key].num) :
                  block_rhs[key].num[i][1] = 0
           /\ \E i \in 1..Rows(ret.value[key].num) :
                  ret.value[key].num[i][1] # 0

====
